---- MODULE Spec2Model ----
(***************************************************************************)
(* A model of jenkins_exporter.py: the JenkinsCollector custom collector.  *)
(* One scrape is one run of the generator collect(): it fetches the job    *)
(* tree (parse_jobs / parse_job_runs over _api_call), rebinds the metric   *)
(* tables kept on the collector instance, inserts the samples of every     *)
(* job, and yields the metric families.  The HTTP server of                *)
(* prometheus_client serves every scrape request on a thread of its own,   *)
(* against the one collector registered in main().                         *)
(*                                                                         *)
(* Encoding of the JSON payloads:                                          *)
(*   - an optional key of a dict is a set: {} when the key is absent,      *)
(*     {v} when it is present with value v;                                *)
(*   - a URL is a tuple: <<n>> is the listing of node n (<<0>> the root),  *)
(*     <<n, i>> the detail page of the i-th build of job n;                *)
(*   - a fullName is the path of node ids from the root;                   *)
(*   - millisecond values are multiples of 1000, so that x / 1000.0 is     *)
(*     the integer x \div 1000.                                            *)
(***************************************************************************)
EXTENDS Integers, Sequences, FiniteSets, TLC

VARIABLES
    jenkins,             \* the upstream server: what each URL answers
    prometheus_metrics,  \* self._prometheus_metrics (<<>>: attribute not set)
    job_runs_metrics,    \* self._job_runs_metrics   (<<>>: attribute not set)
    pc,                  \* per scrape thread: position inside collect()
    jobs,                \* per scrape thread: the local `jobs` of collect()
    idx,                 \* per scrape thread: loop index (job, then status)
    emitted,             \* per scrape thread: families yielded by this cycle
    err,                 \* per scrape thread: exception raised to the caller
    bad,                 \* per scrape thread: URLs answering non-200 this cycle
    outcomes,            \* per scrape thread: how each finished cycle ended
    requests,            \* per scrape thread: scrape requests it will serve
    first                \* the families of the first cycle that completed

vars == <<jenkins, prometheus_metrics, job_runs_metrics, pc, jobs, idx,
          emitted, err, bad, outcomes, requests, first>>

-----------------------------------------------------------------------------
(* Bounds of the model. *)

MaxCycles == 3

MaxNodes == 3

MaxBuilds == 2

-----------------------------------------------------------------------------
(* Constants of the program. *)

statuses ==
    <<"lastBuild", "lastCompletedBuild", "lastFailedBuild", "lastStableBuild",
      "lastSuccessfulBuild", "lastUnstableBuild", "lastUnsuccessfulBuild">>

StatusSet == {statuses[i] : i \in 1..Len(statuses)}

\* The keys of self._prometheus_metrics[status], in insertion order.
MetricKeys ==
    <<"number", "duration", "timestamp", "queuingDurationMillis",
      "totalDurationMillis", "skipCount", "failCount", "totalCount",
      "passCount">>

MetricKeySet == {MetricKeys[i] : i \in 1..Len(MetricKeys)}

\* The keys of self._job_runs_metrics, in insertion order.
RunKeys == <<"runs_successful_total", "runs_failed_total">>

RunKeySet == {RunKeys[i] : i \in 1..Len(RunKeys)}

FolderClasses ==
    {"com.cloudbees.hudson.plugins.folder.Folder",
     "jenkins.branch.OrganizationFolder",
     "org.jenkinsci.plugins.workflow.multibranch.WorkflowMultiBranchProject"}

RunClasses ==
    {"org.jenkinsci.plugins.workflow.job.WorkflowJob",
     "hudson.model.FreeStyleProject"}

\* A class the exporter does not know (a matrix project, say).
OtherClass == "hudson.matrix.MatrixProject"

Threads == {1, 2}

-----------------------------------------------------------------------------
(* Python's dict.get and truth value. *)

Val(o) == CHOOSE v \in o : TRUE

Get(o, default) == IF o = {} THEN default ELSE Val(o)

Truthy(v) == v # 0

Div1000(x) == x \div 1000

-----------------------------------------------------------------------------
(* The upstream API. *)

\* The JSON of child n in a listing, under the tree selector of _request_data.
JobJson(J, n) ==
    [class |-> J.class[n],
     fullName |-> J.fullName[n],
     url |-> <<n>>,
     builds |-> IF J.builds[n] = {} THEN {}
                ELSE {[i \in 1..Len(Val(J.builds[n])) |-> [url |-> <<n, i>>]]},
     st |-> J.st[n],
     runs_successful_total |-> {},
     runs_failed_total |-> {}]

\* The body Jenkins answers at url.
Response(J, url) ==
    IF Len(url) = 1
    THEN [jobs |-> [i \in 1..Len(J.jobs[url[1]]) |-> JobJson(J, J.jobs[url[1]][i])]]
    ELSE Val(J.builds[url[1]])[url[2]]

\* A slip of _api_call: the status code of the response is not looked at.
api_call_unchecked(J, url, failing) ==
    [err |-> "none", result |-> Response(J, url)]

\* _api_call: raises Exception on a status that is not 200.
api_call(J, url, failing) ==
    IF url \in failing
    THEN [err |-> "Exception"]
    ELSE [err |-> "none", result |-> Response(J, url)]

-----------------------------------------------------------------------------
(* parse_job_runs and parse_jobs. *)

RECURSIVE runs_loop(_, _, _, _, _, _)
\* The for loop of parse_job_runs over builds, from position i on.
runs_loop(J, builds, i, successful_runs, failed_runs, failing) ==
    IF i > Len(builds)
    THEN [err |-> "none", successful_runs |-> successful_runs,
          failed_runs |-> failed_runs]
    ELSE LET wf == api_call(J, builds[i].url, failing) IN
         IF wf.err # "none" THEN [err |-> wf.err]
         ELSE IF wf.result.result = {} THEN [err |-> "KeyError"]
         ELSE LET result == Val(wf.result.result)
                  s == IF result = "SUCCESS"
                       THEN Append(successful_runs, wf.result.number)
                       ELSE successful_runs
                  f == IF result = "FAILURE"
                       THEN Append(failed_runs, wf.result.number)
                       ELSE failed_runs
              IN runs_loop(J, builds, i + 1, s, f, failing)

parse_job_runs(J, job, failing) ==
    IF job.class \in RunClasses
    THEN LET builds == Get(job.builds, <<>>) IN
         IF builds # <<>>
         THEN LET r == runs_loop(J, builds, 1, <<>>, <<>>, failing) IN
              IF r.err # "none" THEN [err |-> r.err]
              ELSE [err |-> "none",
                    job |-> [job EXCEPT
                        !.runs_successful_total = {Len(r.successful_runs)},
                        !.runs_failed_total = {Len(r.failed_runs)}]]
         ELSE [err |-> "none", job |-> job]
    ELSE [err |-> "none", job |-> job]

RECURSIVE parse_jobs(_, _, _)
RECURSIVE jobs_loop(_, _, _, _, _)

\* A slip of jobs_loop: only the plain Folder class is descended into.
jobs_loop_one_class(J, children, i, acc, failing) ==
    IF i > Len(children)
    THEN [err |-> "none", jobs |-> acc]
    ELSE LET job == children[i] IN
         IF job.class = "com.cloudbees.hudson.plugins.folder.Folder"
         THEN LET sub == parse_jobs(J, job.url, failing) IN
              IF sub.err # "none" THEN [err |-> sub.err]
              ELSE jobs_loop(J, children, i + 1, acc \o sub.jobs, failing)
         ELSE LET r == parse_job_runs(J, job, failing) IN
              IF r.err # "none" THEN [err |-> r.err]
              ELSE jobs_loop(J, children, i + 1, Append(acc, r.job), failing)

\* A slip of jobs_loop: the leaves of a folder are put in front of the list.
jobs_loop_prepend(J, children, i, acc, failing) ==
    IF i > Len(children)
    THEN [err |-> "none", jobs |-> acc]
    ELSE LET job == children[i] IN
         IF job.class \in FolderClasses
         THEN LET sub == parse_jobs(J, job.url, failing) IN
              IF sub.err # "none" THEN [err |-> sub.err]
              ELSE jobs_loop(J, children, i + 1, sub.jobs \o acc, failing)
         ELSE LET r == parse_job_runs(J, job, failing) IN
              IF r.err # "none" THEN [err |-> r.err]
              ELSE jobs_loop(J, children, i + 1, Append(acc, r.job), failing)

\* The for loop of parse_jobs over result['jobs'], from position i on.
jobs_loop(J, children, i, acc, failing) ==
    IF i > Len(children)
    THEN [err |-> "none", jobs |-> acc]
    ELSE LET job == children[i] IN
         IF job.class \in FolderClasses
         THEN LET sub == parse_jobs(J, job.url, failing) IN
              IF sub.err # "none" THEN [err |-> sub.err]
              ELSE jobs_loop(J, children, i + 1, acc \o sub.jobs, failing)
         ELSE LET r == parse_job_runs(J, job, failing) IN
              IF r.err # "none" THEN [err |-> r.err]
              ELSE jobs_loop(J, children, i + 1, Append(acc, r.job), failing)

parse_jobs(J, url, failing) ==
    LET r == api_call(J, url, failing) IN
    IF r.err # "none" THEN [err |-> r.err]
    ELSE jobs_loop(J, r.result.jobs, 1, <<>>, failing)

request_data(J, failing) == parse_jobs(J, <<0>>, failing)

-----------------------------------------------------------------------------
(* The metric tables. *)

\* The tables _setup_empty_prometheus_metrics binds: every family empty.
EmptyPrometheusMetrics ==
    [s \in StatusSet |-> [k \in MetricKeySet |-> <<>>]]

EmptyJobRunsMetrics == [k \in RunKeySet |-> <<>>]

\* GaugeMetricFamily.add_metric on a family of the per-status tables.
add_metric(T, status, key, name, value) ==
    [T EXCEPT !.pm[status][key] =
        Append(@, [labels |-> <<name>>, value |-> value])]

\* GaugeMetricFamily.add_metric on a family of the run tables.
add_run_metric(T, key, name, value) ==
    [T EXCEPT !.runs[key] = Append(@, [labels |-> <<name>>, value |-> value])]

\* One pass of the loop over actions_metrics: the five tests on one entry.
action_entry(T, status, metric, name) ==
    LET t1 == IF Truthy(Get(metric.queuingDurationMillis, 0))
              THEN add_metric(T, status, "queuingDurationMillis", name,
                              Div1000(Val(metric.queuingDurationMillis)))
              ELSE T
        t2 == IF Truthy(Get(metric.totalDurationMillis, 0))
              THEN add_metric(t1, status, "totalDurationMillis", name,
                              Div1000(Val(metric.totalDurationMillis)))
              ELSE t1
        t3 == IF Truthy(Get(metric.skipCount, 0))
              THEN add_metric(t2, status, "skipCount", name, Val(metric.skipCount))
              ELSE t2
        t4 == IF Truthy(Get(metric.failCount, 0))
              THEN add_metric(t3, status, "failCount", name, Val(metric.failCount))
              ELSE t3
    IN  IF Truthy(Get(metric.totalCount, 0))
        THEN LET t5 == add_metric(t4, status, "totalCount", name,
                                  Val(metric.totalCount))
             IN  \* int - None raises TypeError
                 IF metric.failCount = {} \/ metric.skipCount = {}
                 THEN [t5 EXCEPT !.raised = "TypeError"]
                 ELSE add_metric(t5, status, "passCount", name,
                                 Val(metric.totalCount) - Val(metric.failCount)
                                     - Val(metric.skipCount))
        ELSE t4

RECURSIVE actions_loop(_, _, _, _, _)
\* The for loop over actions_metrics, from position i on.
actions_loop(T, status, actions_metrics, i, name) ==
    IF i > Len(actions_metrics) \/ T.raised # "none" THEN T
    ELSE actions_loop(action_entry(T, status, actions_metrics[i], name),
                      status, actions_metrics, i + 1, name)

\* The empty dict {} as a status snapshot, and as an action entry.
EmptySnapshot == [number |-> {}, duration |-> {}, timestamp |-> {}, actions |-> {}]

EmptyAction ==
    [queuingDurationMillis |-> {}, totalDurationMillis |-> {}, skipCount |-> {},
     failCount |-> {}, totalCount |-> {}]

add_data_to_prometheus_structure(T, status, status_data, job, name) ==
    LET t1 == IF Truthy(Get(status_data.duration, 0))
              THEN add_metric(T, status, "duration", name,
                              Div1000(Val(status_data.duration)))
              ELSE T
        t2 == IF Truthy(Get(status_data.timestamp, 0))
              THEN add_metric(t1, status, "timestamp", name,
                              Div1000(Val(status_data.timestamp)))
              ELSE t1
        t3 == IF Truthy(Get(status_data.number, 0))
              THEN add_metric(t2, status, "number", name, Val(status_data.number))
              ELSE t2
        actions_metrics == Get(status_data.actions, <<EmptyAction>>)
        t4 == actions_loop(t3, status, actions_metrics, 1, name)
    IN  IF t4.raised # "none" THEN t4   \* the exception leaves the function
        ELSE LET t5 == IF Truthy(Get(job.runs_successful_total, 0))
                       THEN add_run_metric(t4, "runs_successful_total", name,
                                           Val(job.runs_successful_total))
                       ELSE t4
             IN IF Truthy(Get(job.runs_failed_total, 0))
                THEN add_run_metric(t5, "runs_failed_total", name,
                                    Val(job.runs_failed_total))
                ELSE t5

RECURSIVE get_metrics_loop(_, _, _, _)
\* The for loop of _get_metrics over self.statuses, from position i on.
get_metrics_loop(T, name, job, i) ==
    IF i > Len(statuses) \/ T.raised # "none" THEN T
    ELSE LET status == statuses[i] IN
         IF job.st[status].present
         THEN LET status_data == Get(job.st[status].data, EmptySnapshot) IN
              get_metrics_loop(
                  add_data_to_prometheus_structure(T, status, status_data, job, name),
                  name, job, i + 1)
         ELSE get_metrics_loop(T, name, job, i + 1)

get_metrics(T, name, job) == get_metrics_loop(T, name, job, 1)

\* The families collect() yields for one status, in the order of .values().
StatusFamilies(pm, status) ==
    [k \in 1..Len(MetricKeys) |->
        [metric |-> <<status, MetricKeys[k]>>, samples |-> pm[status][MetricKeys[k]]]]

\* The families collect() yields from self._job_runs_metrics.values().
RunFamilies(runs) ==
    [k \in 1..Len(RunKeys) |->
        [metric |-> <<"runs", RunKeys[k]>>, samples |-> runs[RunKeys[k]]]]

-----------------------------------------------------------------------------
(* collect(), one step at a time. *)

\* collect() is called and runs up to the return of _request_data.
RequestData(t) ==
    /\ pc[t] \in {"idle", "done", "aborted"}
    /\ Len(outcomes[t]) < requests[t]
    /\ \E failing \in {{}} \cup {{u} : u \in jenkins.urls} :
        LET r == request_data(jenkins, failing) IN
        /\ bad' = [bad EXCEPT ![t] = failing]
        /\ pc' = [pc EXCEPT ![t] = IF r.err = "none" THEN "fetched" ELSE "aborted"]
        /\ err' = [err EXCEPT ![t] = r.err]
        /\ jobs' = [jobs EXCEPT ![t] = IF r.err = "none" THEN r.jobs ELSE <<>>]
        /\ outcomes' = [outcomes EXCEPT ![t] =
                IF r.err = "none" THEN @ ELSE Append(@, "aborted")]
    /\ emitted' = [emitted EXCEPT ![t] = <<>>]
    /\ idx' = [idx EXCEPT ![t] = 0]
    /\ UNCHANGED <<jenkins, prometheus_metrics, job_runs_metrics, requests, first>>

\* A slip of _setup_empty_prometheus_metrics: the tables are built once, on
\* the first scrape, and kept from then on.
SetupPrometheusMetricsOnce(t) ==
    /\ pc[t] = "fetched"
    /\ prometheus_metrics' =
            IF prometheus_metrics = <<>> THEN EmptyPrometheusMetrics
            ELSE prometheus_metrics
    /\ job_runs_metrics' =
            IF job_runs_metrics = <<>> THEN EmptyJobRunsMetrics
            ELSE job_runs_metrics
    /\ pc' = [pc EXCEPT ![t] = IF jobs[t] = <<>> THEN "yield" ELSE "insert"]
    /\ idx' = [idx EXCEPT ![t] = 1]
    /\ UNCHANGED <<jenkins, jobs, emitted, err, bad, outcomes, requests, first>>

\* self._setup_empty_prometheus_metrics()
SetupEmptyPrometheusMetrics(t) ==
    /\ pc[t] = "fetched"
    /\ prometheus_metrics' = EmptyPrometheusMetrics
    /\ job_runs_metrics' = EmptyJobRunsMetrics
    /\ pc' = [pc EXCEPT ![t] = IF jobs[t] = <<>> THEN "yield" ELSE "insert"]
    /\ idx' = [idx EXCEPT ![t] = 1]
    /\ UNCHANGED <<jenkins, jobs, emitted, err, bad, outcomes, requests, first>>

\* One pass of `for job in jobs`: self._get_metrics(name, job)
GetMetrics(t) ==
    /\ pc[t] = "insert"
    /\ LET job == jobs[t][idx[t]]
           name == job.fullName
           T == get_metrics([pm |-> prometheus_metrics, runs |-> job_runs_metrics,
                             raised |-> "none"], name, job)
       IN /\ prometheus_metrics' = T.pm
          /\ job_runs_metrics' = T.runs
          /\ err' = [err EXCEPT ![t] = T.raised]
          /\ pc' = [pc EXCEPT ![t] =
                IF T.raised # "none" THEN "aborted"
                ELSE IF idx[t] = Len(jobs[t]) THEN "yield" ELSE "insert"]
          /\ idx' = [idx EXCEPT ![t] =
                IF T.raised # "none" THEN 0
                ELSE IF idx[t] = Len(jobs[t]) THEN 1 ELSE @ + 1]
          /\ outcomes' = [outcomes EXCEPT ![t] =
                IF T.raised # "none" THEN Append(@, "aborted") ELSE @]
    /\ UNCHANGED <<jenkins, jobs, emitted, bad, requests, first>>

\* One pass of `for status in self.statuses`: the nine families are yielded.
YieldStatus(t) ==
    /\ pc[t] = "yield"
    /\ idx[t] <= Len(statuses)
    /\ emitted' = [emitted EXCEPT ![t] =
            @ \o StatusFamilies(prometheus_metrics, statuses[idx[t]])]
    /\ idx' = [idx EXCEPT ![t] = @ + 1]
    /\ UNCHANGED <<jenkins, prometheus_metrics, job_runs_metrics, pc, jobs, err,
                   bad, outcomes, requests, first>>

\* `for metric in self._job_runs_metrics.values()`, then the end of collect().
YieldRuns(t) ==
    /\ pc[t] = "yield"
    /\ idx[t] = Len(statuses) + 1
    /\ LET out == emitted[t] \o RunFamilies(job_runs_metrics) IN
        /\ emitted' = [emitted EXCEPT ![t] = out]
        /\ first' = IF first = {} THEN {out} ELSE first
    /\ pc' = [pc EXCEPT ![t] = "done"]
    /\ idx' = [idx EXCEPT ![t] = 0]
    /\ outcomes' = [outcomes EXCEPT ![t] = Append(@, "done")]
    /\ UNCHANGED <<jenkins, prometheus_metrics, job_runs_metrics, jobs, err, bad,
                   requests>>

Collect(t) ==
    \/ RequestData(t)
    \/ SetupEmptyPrometheusMetrics(t)
    \/ GetMetrics(t)
    \/ YieldStatus(t)
    \/ YieldRuns(t)

-----------------------------------------------------------------------------
(* The upstream servers the model is run against. *)

RECURSIVE SortedSeq(_)
\* The elements of a finite set of numbers, ascending.
SortedSeq(S) ==
    IF S = {} THEN <<>>
    ELSE LET m == CHOOSE x \in S : \A y \in S : x <= y
         IN <<m>> \o SortedSeq(S \ {m})

RECURSIVE PathTo(_, _)
\* Jenkins' fullName of node n: the path from the root, under parent map p.
PathTo(p, n) == IF p[n] = 0 THEN <<n>> ELSE Append(PathTo(p, p[n]), n)

BuildUrls(builds, n) ==
    IF builds[n] = {} THEN {}
    ELSE {<<n, i>> : i \in 1..Len(Val(builds[n]))}

\* The server with nodes 1..N, node n listed under p[n] (0: the root), the
\* children of a node listed by ascending id.
Upstream(N, p, class, builds, st) ==
    [jobs |-> [m \in 0..N |-> SortedSeq({n \in 1..N : p[n] = m})],
     class |-> class,
     fullName |-> [n \in 1..N |-> PathTo(p, n)],
     builds |-> builds,
     st |-> st,
     urls |-> {<<m>> : m \in 0..N}
                \cup UNION {BuildUrls(builds, n) : n \in 1..N}]

\* The parent maps of the trees on 0..N: every node hangs under an earlier one.
ParentMaps(N) == {p \in [1..N -> 0..(N - 1)] : \A n \in 1..N : p[n] < n}

\* A status key of a job: absent, null, or a snapshot object.
KeyAbsent == [present |-> FALSE, data |-> {}]

KeyNull == [present |-> TRUE, data |-> {}]

KeyOf(snapshot) == [present |-> TRUE, data |-> {snapshot}]

NoStatus == [s \in StatusSet |-> KeyAbsent]

\* The detail page of build number i with the given result key.
Build(result, i) == [result |-> result, number |-> i]

\* The values of a build's result key: {} is no key at all, "null" is null.
Results == {{"SUCCESS"}, {"FAILURE"}, {"UNSTABLE"}, {"null"}, {}}

RECURSIVE BuildLists(_)
\* The build histories of at most n builds.
BuildLists(n) ==
    IF n = 0 THEN {<<>>}
    ELSE LET shorter == BuildLists(n - 1) IN
         shorter \cup
         {Append(b, Build(r, Len(b) + 1)) : b \in {x \in shorter : Len(x) = n - 1},
                                            r \in Results}

\* The collector as __init__ leaves it: no metric table is bound yet, and no
\* scrape runs.
Registered ==
    /\ prometheus_metrics = <<>>
    /\ job_runs_metrics = <<>>
    /\ pc = [t \in Threads |-> "idle"]
    /\ jobs = [t \in Threads |-> <<>>]
    /\ idx = [t \in Threads |-> 0]
    /\ emitted = [t \in Threads |-> <<>>]
    /\ err = [t \in Threads |-> "none"]
    /\ bad = [t \in Threads |-> {}]
    /\ outcomes = [t \in Threads |-> <<>>]
    /\ first = {}

Next == \E t \in Threads : Collect(t)

-----------------------------------------------------------------------------
(* Trees: every tree on MaxNodes nodes, every node of any class, each job  *)
(* with one build and one snapshot; one scrape.                            *)

TreeClasses == FolderClasses \cup {"org.jenkinsci.plugins.workflow.job.WorkflowJob", OtherClass}

SimpleSnapshot == [EmptySnapshot EXCEPT !.number = {5}, !.duration = {3000}]

InitTree ==
    /\ \E p \in ParentMaps(MaxNodes), class \in [1..MaxNodes -> TreeClasses] :
        jenkins = Upstream(MaxNodes, p, class,
                           [n \in 1..MaxNodes |-> {}],
                           [n \in 1..MaxNodes |->
                                [NoStatus EXCEPT !["lastBuild"] = KeyOf(SimpleSnapshot)]])
    /\ requests = [t \in Threads |-> IF t = 1 THEN 1 ELSE 0]
    /\ Registered

SpecTree == InitTree /\ [][Next]_vars

-----------------------------------------------------------------------------
(* Payloads: a folder holding job 2, and job 3 beside the folder.  Job 2   *)
(* varies, first over the status snapshots, then over the build history;   *)
(* the exporter serves MaxCycles scrapes, one after the other.             *)

\* The counters of an action entry: each absent, zero or positive.
CountEntries ==
    {[EmptyAction EXCEPT !.skipCount = s, !.failCount = f, !.totalCount = c] :
        s \in {{}, {0}, {1}}, f \in {{}, {0}, {2}}, c \in {{}, {0}, {10}}}

\* The durations of an action entry.
DurationEntries ==
    {[EmptyAction EXCEPT !.queuingDurationMillis = q, !.totalDurationMillis = d] :
        q \in {{0}, {3000}}, d \in {{}, {4000}}}

FullEntry ==
    [queuingDurationMillis |-> {3000}, totalDurationMillis |-> {4000},
     skipCount |-> {1}, failCount |-> {2}, totalCount |-> {10}]

ActionLists ==
    {<<>>}
    \cup {<<e>> : e \in CountEntries \cup DurationEntries}
    \cup {<<e, FullEntry>> : e \in CountEntries}
    \cup {<<FullEntry, e>> : e \in CountEntries}

Snapshots ==
    {[number |-> n, duration |-> d, timestamp |-> ts, actions |-> {}] :
        n \in {{}, {0}, {5}}, d \in {{}, {0}, {3000}}, ts \in {{}, {0}, {7000}}}
    \cup {[EmptySnapshot EXCEPT !.number = {5}, !.actions = {l}] : l \in ActionLists}

\* Job 2 over the status snapshots.
SnapshotJobs ==
    {[class |-> "org.jenkinsci.plugins.workflow.job.WorkflowJob",
      builds |-> {<<Build({"SUCCESS"}, 1)>>},
      st |-> [NoStatus EXCEPT !["lastBuild"] = a, !["lastFailedBuild"] = b]] :
        a \in {KeyAbsent, KeyNull} \cup {KeyOf(x) : x \in Snapshots},
        b \in {KeyAbsent, KeyOf(SimpleSnapshot)}}

\* Job 2 over the classes and the build histories of at most MaxBuilds builds.
HistoryJobs ==
    {[class |-> c, builds |-> b, st |-> st] :
        c \in RunClasses \cup {OtherClass},
        b \in {{}} \cup {{h} : h \in BuildLists(MaxBuilds)},
        st \in {NoStatus,
                [NoStatus EXCEPT !["lastBuild"] = KeyOf(SimpleSnapshot),
                                 !["lastCompletedBuild"] = KeyOf(SimpleSnapshot)]}}

\* Job 3: a freestyle project with one successful build and one snapshot.
SiblingJob ==
    [class |-> "hudson.model.FreeStyleProject",
     builds |-> {<<Build({"SUCCESS"}, 1)>>},
     st |-> [NoStatus EXCEPT !["lastBuild"] = KeyOf(SimpleSnapshot)]]

FolderNode ==
    [class |-> "com.cloudbees.hudson.plugins.folder.Folder", builds |-> {},
     st |-> NoStatus]

\* The server: folder 1 holding job 2, and job 3 listed after the folder.
Server(job2) ==
    LET node == <<FolderNode, job2, SiblingJob>> IN
    Upstream(3, <<0, 1, 0>>,
             [n \in 1..3 |-> node[n].class],
             [n \in 1..3 |-> node[n].builds],
             [n \in 1..3 |-> node[n].st])

Init ==
    /\ \E job2 \in SnapshotJobs \cup HistoryJobs : jenkins = Server(job2)
    /\ requests = [t \in Threads |-> IF t = 1 THEN MaxCycles ELSE 0]
    /\ Registered

Spec == Init /\ [][Next]_vars

-----------------------------------------------------------------------------
(* Overlapping scrapes: two request threads of the HTTP server run         *)
(* collect() on the one registered collector.                              *)

CountedJob ==
    [class |-> "org.jenkinsci.plugins.workflow.job.WorkflowJob",
     builds |-> {<<Build({"SUCCESS"}, 1), Build({"FAILURE"}, 2)>>},
     st |-> [NoStatus EXCEPT
                !["lastBuild"] =
                    KeyOf([SimpleSnapshot EXCEPT !.actions = {<<FullEntry>>}])]]

PlainJob ==
    [class |-> OtherClass, builds |-> {},
     st |-> [NoStatus EXCEPT !["lastFailedBuild"] = KeyOf(SimpleSnapshot)]]

InitConc ==
    /\ \E job2 \in {CountedJob, PlainJob} : jenkins = Server(job2)
    /\ requests = [t \in Threads |-> IF t = 1 THEN 2 ELSE 1]
    /\ Registered

SpecConc == InitConc /\ [][Next]_vars

-----------------------------------------------------------------------------
(* What the claims speak of. *)

\* The scrape of thread t got its job list back from _request_data.
Fetched(t) ==
    \/ pc[t] \in {"fetched", "insert", "yield", "done"}
    \/ pc[t] = "aborted" /\ err[t] = "TypeError"

Last(path) == path[Len(path)]

\* The nodes of the server that are no folders and lie under folders only.
ReachableLeaves ==
    {n \in DOMAIN jenkins.class :
        /\ jenkins.class[n] \notin FolderClasses
        /\ \A k \in 1..(Len(jenkins.fullName[n]) - 1) :
              jenkins.class[jenkins.fullName[n][k]] \in FolderClasses}

\* The position of node n in the listing of node m.
PosIn(m, n) == CHOOSE k \in 1..Len(jenkins.jobs[m]) : jenkins.jobs[m][k] = n

\* The first position where two different paths part, neither a prefix.
Fork(a, b) ==
    CHOOSE k \in 1..Len(a) : k <= Len(b) /\ a[k] # b[k]
                             /\ \A h \in 1..(k - 1) : a[h] = b[h]

\* Paths a and b part somewhere: neither is a prefix of the other.
Parts(a, b) ==
    \E k \in 1..Len(a) : k <= Len(b) /\ a[k] # b[k]

\* C4: the list parse_jobs returns holds no node of a folder class, and holds
\* every node that is no folder and is reachable from the root through
\* folders exactly once, under the fullName the server gives it.
C4_FlattenerLeavesOnly ==
    \A t \in Threads : Fetched(t) =>
        /\ \A i \in 1..Len(jobs[t]) : jobs[t][i].class \notin FolderClasses
        /\ \A n \in ReachableLeaves :
            Cardinality({i \in 1..Len(jobs[t]) :
                            jobs[t][i].fullName = jenkins.fullName[n]}) = 1

\* C4's case: a job two folders deep (A/B/job1) came back from the flattener.
C4_Witness ==
    \E t \in Threads : Fetched(t) /\
        \E i \in 1..Len(jobs[t]) :
            /\ Len(jobs[t][i].fullName) = 3
            /\ jenkins.class[jobs[t][i].fullName[1]] # jenkins.class[jobs[t][i].fullName[2]]

\* C8: of any two jobs of the returned list, the earlier one is the one whose
\* branch is listed first among the children of their deepest common folder.
C8_FlattenerDepthFirstOrder ==
    \A t \in Threads : Fetched(t) =>
        \A i, j \in 1..Len(jobs[t]) : i < j =>
            LET a == jobs[t][i].fullName
                b == jobs[t][j].fullName
            IN /\ Parts(a, b)
               /\ LET k == Fork(a, b)
                      c == IF k = 1 THEN 0 ELSE a[k - 1]
                  IN PosIn(c, a[k]) < PosIn(c, b[k])

\* C8's case: a leaf under a folder is returned before the leaf of the
\* folder's later sibling, though the server numbers it after that sibling.
C8_Witness ==
    \E t \in Threads : Fetched(t) /\ Len(jobs[t]) = 2 /\
        /\ Len(jobs[t][1].fullName) = 2
        /\ Len(jobs[t][2].fullName) = 1
        /\ Last(jobs[t][1].fullName) > Last(jobs[t][2].fullName)

\* The folders the traversal descends into.
ReachableFolders ==
    {n \in DOMAIN jenkins.class :
        \A k \in 1..Len(jenkins.fullName[n]) :
            jenkins.class[jenkins.fullName[n][k]] \in FolderClasses}

\* The build history the server holds for node n.
History(n) == Get(jenkins.builds[n], <<>>)

\* The URLs a traversal that nothing stops asks for.
VisitedUrls ==
    {<<0>>} \cup {<<n>> : n \in ReachableFolders}
    \cup UNION {{<<n, i>> : i \in 1..Len(History(n))} :
                    n \in {m \in ReachableLeaves : jenkins.class[m] \in RunClasses}}

\* Some build page a traversal asks for has no result key.
HasResultlessBuild ==
    \E n \in ReachableLeaves :
        /\ jenkins.class[n] \in RunClasses
        /\ \E i \in 1..Len(History(n)) : History(n)[i].result = {}

\* The samples of family m among the families E, <<>> when it was not yielded.
Family(E, m) ==
    IF \E k \in 1..Len(E) : E[k].metric = m
    THEN E[CHOOSE k \in 1..Len(E) : E[k].metric = m].samples
    ELSE <<>>

\* The values of the samples labelled with fullName name, in order.
ValuesOf(samples, name) ==
    LET mine == SelectSeq(samples, LAMBDA x : x.labels = <<name>>)
    IN [k \in 1..Len(mine) |-> mine[k].value]

\* The snapshot node n carries for status s ({} for null).
SnapshotOf(n, s) == Get(jenkins.st[n][s].data, EmptySnapshot)

\* The action entries of a snapshot (the default of one empty entry when the
\* key is absent).
EntriesOf(d) == Get(d.actions, <<EmptyAction>>)

\* C1: a scrape in which an upstream call answers a status that is no success,
\* wherever in the traversal that call lies, ends aborted, with the exception
\* raised to its caller, and yields not one family.
C1_AllOrNothing ==
    \A t \in Threads :
        (pc[t] # "idle" /\ (err[t] = "Exception" \/ bad[t] \cap VisitedUrls # {})) =>
            /\ pc[t] = "aborted"
            /\ emitted[t] = <<>>
            /\ err[t] \in {"Exception", "KeyError"}
            /\ err[t] = "KeyError" => HasResultlessBuild

\* C1's case: after a scrape that completed, a scrape fetched job 2 and its
\* builds, then the status call of job 3's build failed.
C1_Witness ==
    \E t \in Threads :
        /\ pc[t] = "aborted" /\ err[t] = "Exception"
        /\ bad[t] = {<<3, 1>>}
        /\ jenkins.class[2] \in RunClasses /\ Len(History(2)) >= 1
        /\ outcomes[t] = <<"done", "aborted">>
        /\ Len(prometheus_metrics["lastBuild"]["number"]) >= 1

\* C9: whatever scrapes came before on the same collector, completed or
\* aborted, a scrape that completes yields the families the first completed
\* scrape yielded.
C9_NoAccumulation ==
    \A t \in Threads : pc[t] = "done" => first = {emitted[t]}

\* C9's case: a third scrape completed with samples, after one that completed
\* and one that was aborted.
C9_Witness ==
    \E t \in Threads :
        /\ pc[t] = "done"
        /\ outcomes[t] = <<"done", "aborted", "done">>
        /\ Len(Family(emitted[t], <<"lastBuild", "number">>)) = 2
        /\ Len(Family(emitted[t], <<"runs", "runs_successful_total">>)) >= 1

\* The pass counts the claim expects of the entries from position i on.
RECURSIVE ExpectedPass(_, _)
ExpectedPass(entries, i) ==
    IF i > Len(entries) THEN <<>>
    ELSE IF Truthy(Get(entries[i].totalCount, 0))
    THEN <<Val(entries[i].totalCount) - Get(entries[i].failCount, 0)
             - Get(entries[i].skipCount, 0)>> \o ExpectedPass(entries, i + 1)
    ELSE ExpectedPass(entries, i + 1)

\* C3: a scrape that fetched its jobs completes, and yields for every action
\* entry with a totalCount a pass_count sample of totalCount - failCount -
\* skipCount, an absent failCount or skipCount counting as zero.
C3_PassCount ==
    \A t \in Threads : Fetched(t) =>
        /\ err[t] # "TypeError"
        /\ pc[t] = "done" =>
            \A n \in ReachableLeaves, s \in StatusSet :
                jenkins.st[n][s].present =>
                    ValuesOf(Family(emitted[t], <<s, "passCount">>), jenkins.fullName[n])
                        = ExpectedPass(EntriesOf(SnapshotOf(n, s)), 1)

\* The number of builds in a history whose result key holds r.
CountResult(h, r) == Cardinality({i \in 1..Len(h) : h[i].result = {r}})

\* C5: when no upstream call fails, parse_job_runs raises nothing, and leaves
\* on a pipeline or freestyle job with builds the number of SUCCESS builds and
\* the number of FAILURE builds, a build with any other result, or with no
\* result key, counting for neither.
C5_RunOutcomeCounts ==
    \A t \in Threads :
        (pc[t] # "idle" /\ bad[t] \cap VisitedUrls = {}) =>
            /\ err[t] # "KeyError"
            /\ Fetched(t) =>
                \A i \in 1..Len(jobs[t]) :
                    LET n == Last(jobs[t][i].fullName) IN
                    (jobs[t][i].class \in RunClasses /\ History(n) # <<>>) =>
                        /\ jobs[t][i].runs_successful_total
                                = {CountResult(History(n), "SUCCESS")}
                        /\ jobs[t][i].runs_failed_total
                                = {CountResult(History(n), "FAILURE")}

\* What the claim expects in a run family for a job with the given count.
ExpectedRun(count) ==
    IF Truthy(Get(count, 0)) THEN {Val(count)} ELSE {}

\* The values a run family holds under a fullName, as a set.
RunValues(E, key, name) ==
    LET v == ValuesOf(Family(E, <<"runs", key>>), name)
    IN {v[k] : k \in 1..Len(v)}

\* C6: a completed scrape yields, for every job, a runs_successful_total
\* sample of its successfulTotal when that count is present and not zero, and
\* none otherwise; likewise runs_failed_total; whatever status keys it has.
C6_RunSamples ==
    \A t \in Threads : pc[t] = "done" =>
        \A i \in 1..Len(jobs[t]) :
            /\ RunValues(emitted[t], "runs_successful_total", jobs[t][i].fullName)
                    = ExpectedRun(jobs[t][i].runs_successful_total)
            /\ RunValues(emitted[t], "runs_failed_total", jobs[t][i].fullName)
                    = ExpectedRun(jobs[t][i].runs_failed_total)

\* The samples the claim expects of the entries' counter key, from position i.
RECURSIVE ExpectedCounter(_, _, _)
ExpectedCounter(entries, key, i) ==
    IF i > Len(entries) THEN <<>>
    ELSE IF Truthy(Get(entries[i][key], 0))
    THEN <<Val(entries[i][key])>> \o ExpectedCounter(entries, key, i + 1)
    ELSE ExpectedCounter(entries, key, i + 1)

\* C7: a scrape that fetched its jobs yields, for every snapshot, a sample for
\* number, duration and timestamp exactly when the field is present and not
\* zero, and a skip_count and fail_count sample for exactly the entries where
\* the field is present and not zero, whatever the other fields hold.
C7_ZeroSuppressed ==
    \A t \in Threads : (Fetched(t) /\ pc[t] \in {"done", "aborted"}) =>
        \A n \in ReachableLeaves, s \in StatusSet :
            jenkins.st[n][s].present =>
                LET d == SnapshotOf(n, s)
                    name == jenkins.fullName[n]
                    got(key) == ValuesOf(Family(emitted[t], <<s, key>>), name)
                IN /\ got("number") =
                        IF Truthy(Get(d.number, 0)) THEN <<Val(d.number)>> ELSE <<>>
                   /\ got("duration") =
                        IF Truthy(Get(d.duration, 0))
                        THEN <<Div1000(Val(d.duration))>> ELSE <<>>
                   /\ got("timestamp") =
                        IF Truthy(Get(d.timestamp, 0))
                        THEN <<Div1000(Val(d.timestamp))>> ELSE <<>>
                   /\ got("skipCount") = ExpectedCounter(EntriesOf(d), "skipCount", 1)
                   /\ got("failCount") = ExpectedCounter(EntriesOf(d), "failCount", 1)

\* The families that are not read from an actions entry.
ScalarFamilies ==
    {<<s, k>> : s \in StatusSet, k \in {"number", "duration", "timestamp"}}
    \cup {<<"runs", k>> : k \in RunKeySet}

\* C10: in the families of a completed scrape that are not read from an
\* actions entry, no fullName labels more than one sample.
C10_OneSamplePerJob ==
    \A t \in Threads : pc[t] = "done" =>
        \A m \in ScalarFamilies, i \in 1..Len(jobs[t]) :
            Len(ValuesOf(Family(emitted[t], m), jobs[t][i].fullName)) <= 1

RECURSIVE project(_, _, _)
\* The tables a scrape running alone fills from its job list, from job i on.
project(T, js, i) ==
    IF i > Len(js) THEN T
    ELSE project(get_metrics(T, js[i].fullName, js[i]), js, i + 1)

RECURSIVE AllStatusFamilies(_, _)
AllStatusFamilies(pm, i) ==
    IF i > Len(statuses) THEN <<>>
    ELSE StatusFamilies(pm, statuses[i]) \o AllStatusFamilies(pm, i + 1)

\* The families a scrape running alone yields from its job list.
Alone(js) ==
    LET T == project([pm |-> EmptyPrometheusMetrics, runs |-> EmptyJobRunsMetrics,
                      raised |-> "none"], js, 1)
    IN AllStatusFamilies(T.pm, 1) \o RunFamilies(T.runs)

\* C2: a scrape that completes while another scrape runs on the same
\* collector yields the families it would yield running alone.
C2_ConcurrentIndependent ==
    \A t \in Threads : pc[t] = "done" => emitted[t] = Alone(jobs[t])

====
